---- MODULE Spec2Model ----
(***************************************************************************)
(* The base model of openbazaar-desktop (js/models/BaseModel.js): a        *)
(* Backbone Model that manages nested attributes as Model / Collection     *)
(* instances, with set, toJSON, reset, clone, sync and the distribution    *)
(* of validation errors over the nested instances.                         *)
(*                                                                         *)
(* The program state is a heap of objects (records and collections), the  *)
(* objects that hold last-synced snapshots, the static properties of the   *)
(* nested classes, the records the caller holds, and the requests in       *)
(* flight.  A record's cid is its heap index ("c<n>").                     *)
(***************************************************************************)
EXTENDS Integers, Sequences, FiniteSets, TLC

\* ---------------------------------------------------------------- bounds
MaxObj   == 6    \* objects (records and collections) ever constructed
MaxRoots == 2    \* records held by the caller (the first one and its clones)
MaxOps   == 4    \* operations the caller performs in one run

\* ------------------------------------------------------------ plain data
\* JavaScript values.  A string is [s |-> "a"], null is [n |-> 0], undefined
\* (a missing property) is [u |-> 0], a client id "c<k>" is [c |-> k], a plain
\* object is [o |-> f] with f a function from keys to values, an array is
\* [a |-> seq], and a reference to the heap object k is [i |-> k].
Str(x)  == [s |-> x]
Null    == [n |-> 0]
Undef   == [u |-> 0]
Cid(k)  == [c |-> k]
Obj(f)  == [o |-> f]
Arr(q)  == [a |-> q]
Inst(k) == [i |-> k]

EmptyObj == [k \in {} |-> Null]

IsObj(v)  == DOMAIN v = {"o"}
IsArr(v)  == DOMAIN v = {"a"}
IsInst(v) == DOMAIN v = {"i"}
IsCid(v)  == DOMAIN v = {"c"}

\* if (v): null and undefined are the falsy values of the model's data
Truthy(v) == v # Null /\ v # Undef

\* obj[key]
Get(f, key) == IF key \in DOMAIN f THEN f[key] ELSE Undef

\* delete obj[key]
Remove(f, key) == [k \in DOMAIN f \ {key} |-> f[k]]

\* obj[key] = val
Put(f, key, val) == [k \in DOMAIN f \cup {key} |-> IF k = key THEN val ELSE f[k]]

\* { ...f, ...g }, _.extend({}, f, g)
Extend(f, g) == [k \in DOMAIN f \cup DOMAIN g |-> IF k \in DOMAIN g THEN g[k] ELSE f[k]]

\* ---------------------------------------------------------------- classes
\* The record types of the doc comment's example: a parent with a nested
\* record and a nested collection.  Addr and its collection stand for
\* CustomModel and CustomCollection.
ModelClasses == {"Parent", "Addr"}

\* get nested() { return { addr: Addr, addresses: Addresses } }, in key order;
\* Addr declares no nested attributes (this.nested is undefined).
nested(cls) ==
  IF cls = "Parent"
    THEN << [key |-> "addr", cls |-> "Addr"], [key |-> "addresses", cls |-> "Addresses"] >>
    ELSE << >>

NestedKeys(cls) == { nested(cls)[j].key : j \in 1..Len(nested(cls)) }

\* The class a nested key declares (Undef: the key is not declared)
NestedClassOf(cls, key) ==
  IF key \in NestedKeys(cls)
    THEN (CHOOSE e \in { nested(cls)[j] : j \in 1..Len(nested(cls)) } : e.key = key).cls
    ELSE "none"

\* defaults() of each record type
defaults(cls) == IF cls = "Parent" THEN ("name" :> Str("a")) ELSE EmptyObj

\* Collection.prototype.model
ModelOf(cls) == "Addr"

\* A parse that drops what it is given
parseNothing(cls, data) ==
  IF IsObj(data) THEN Obj(EmptyObj) ELSE IF IsArr(data) THEN Arr(<< >>) ELSE data

\* parse(response): the identity, Backbone's default
parse(cls, data) == data

\* ------------------------------------------------------------------- heap
NoErr == Null    \* validationError: null
Errs(q)   == [e |-> q]    \* validationError: an error object
IsErrs(v) == DOMAIN v = {"e"}

NewObject(cls) ==
  [cls |-> cls, attributes |-> EmptyObj, models |-> << >>,
   validationError |-> NoErr, lastSyncedAttrs |-> 0]

IsModel(h, v) == IsInst(v) /\ h[v.i].cls \in ModelClasses

\* v instanceof cls
InstanceOf(h, v, cls) == IsInst(v) /\ h[v.i].cls = cls

RECURSIVE toJSON(_, _)

\* A nested value that is handed out as it is, not expanded
keepNested(h, v) == v

\* attrs[nestedKey] = attrs[nestedKey].toJSON()
expandNested(h, v) == toJSON(h, v.i)

\* A cid that is only given to attributes that have none
appendCidIfAbsent(attrs, id) ==
  IF "cid" \in DOMAIN attrs THEN attrs ELSE Put(attrs, "cid", Cid(id))

\* attrs.cid = this.cid
appendCid(attrs, id) == Put(attrs, "cid", Cid(id))

\* toJSON(): the attributes with every truthy nested value expanded, and the
\* cid appended; Collection.toJSON maps toJSON over the members.
toJSON(h, id) ==
  LET ob == h[id] IN
  IF ob.cls \notin ModelClasses
    THEN Arr([j \in 1..Len(ob.models) |-> toJSON(h, ob.models[j])])
    ELSE LET attrs == ob.attributes
             exp == [k \in DOMAIN attrs |->
                       IF k \in NestedKeys(ob.cls) /\ Truthy(attrs[k])
                         THEN expandNested(h, attrs[k])
                         ELSE attrs[k]]
         IN Obj(appendCid(exp, id))

\* JSON.parse(JSON.stringify(v)): a deep copy in which every instance is
\* replaced by its toJSON()
RECURSIVE JSONCopy(_, _)
JSONCopy(h, v) ==
  IF IsInst(v) THEN JSONCopy(h, toJSON(h, v.i))
  ELSE IF IsObj(v) THEN Obj([k \in DOMAIN v.o |-> JSONCopy(h, v.o[k])])
  ELSE IF IsArr(v) THEN Arr([j \in 1..Len(v.a) |-> JSONCopy(h, v.a[j])])
  ELSE v

\* ------------------------------------------------------------------- set
\* Backbone's Model.set on the attributes: assign, or delete under unset
superSet(attributes, attrs, unset) ==
  IF unset
    THEN [k \in DOMAIN attributes \ DOMAIN attrs |-> attributes[k]]
    ELSE Extend(attributes, attrs)

SomeChange(id) == [e |-> "someChange", on |-> id]

\* A machine is the heap and the events raised so far in the running call.
Machine(h, ev) == [heap |-> h, ev |-> ev]

\* A comparison that leaves out the nested parts: the keys that hold objects
\* and arrays are not looked at
OwnPart(v) == [k \in { x \in DOMAIN v.o : ~IsObj(v.o[x]) /\ ~IsArr(v.o[x]) } |-> v.o[k]]
isChangedOwnPart(previousAttrs, currentAttrs) == OwnPart(currentAttrs) # OwnPart(previousAttrs)

\* Whether set raises someChange: !_.isEqual(this.toJSON(), previousAttrs)
isChanged(previousAttrs, currentAttrs) == currentAttrs # previousAttrs

\* A set that never finds the existing instance
hasInstanceNever(nestedInstance) == FALSE

\* else if (nestedInstance): an instance is already at the nested key
hasInstance(nestedInstance) == Truthy(nestedInstance)

RECURSIVE set(_, _, _, _), reconcile(_, _, _, _), construct(_, _, _),
          collectionSet(_, _, _, _, _, _)

\* The rest of the forEach after an existing instance took the data:
\* delete attrs[nestedKey]
reconcileMerged(m2, id, attrs, nestedKey, j) ==
  reconcile(m2, id, Remove(attrs, nestedKey), j + 1)

\* The rest of the forEach after a new instance c was made:
\* attrs[nestedKey] = new NestedClass(...)
reconcileNew(c, id, attrs, nestedKey, j) ==
  reconcile(c.m, id, Put(attrs, nestedKey, Inst(c.id)), j + 1)

\* One nested key of the forEach in set
reconcileKey(m, id, attrs, j, nestedKey, NestedClass, nestedData, nestedInstance) ==
  IF ~Truthy(nestedData) THEN reconcile(m, id, attrs, j + 1)
  ELSE IF InstanceOf(m.heap, nestedData, NestedClass)
    THEN reconcile(m, id, attrs, j + 1)
  ELSE IF hasInstance(nestedInstance)
    THEN reconcileMerged(
           IF IsModel(m.heap, nestedInstance)
             THEN set(m, nestedInstance.i,
                      parse(m.heap[nestedInstance.i].cls, nestedData).o, FALSE)
             ELSE collectionSet(m, nestedInstance.i, nestedData.a, 1, << >>, TRUE),
           id, attrs, nestedKey, j)
  ELSE reconcileNew(construct(m, NestedClass, nestedData), id, attrs, nestedKey, j)

\* The body of Object.keys(nested).forEach in set, from the j-th nested key
\* on: the machine and the attrs to hand to Backbone's set.
reconcile(m, id, attrs, j) ==
  IF j > Len(nested(m.heap[id].cls)) THEN [m |-> m, attrs |-> attrs]
  ELSE reconcileKey(m, id, attrs, j,
                    nested(m.heap[id].cls)[j].key,
                    nested(m.heap[id].cls)[j].cls,
                    Get(attrs, nested(m.heap[id].cls)[j].key),
                    Get(m.heap[id].attributes, nested(m.heap[id].cls)[j].key))

\* A someChange that is raised on every object when the expansion has changed
raiseSomeChangeOnAll(previousAttrs, h2, ev, id) ==
  Machine(h2, IF isChanged(previousAttrs, toJSON(h2, id))
                THEN ev \o [j \in 1..Len(h2) |-> SomeChange(j)]
                ELSE ev)

\* The end of set: someChange is raised if the expansion has changed
raiseSomeChange(previousAttrs, h2, ev, id) ==
  Machine(h2, IF isChanged(previousAttrs, toJSON(h2, id))
                THEN Append(ev, SomeChange(id))
                ELSE ev)

\* super.set(attrs, opts) on what the forEach left, and the end of set
setReconciled(previousAttrs, r, id, unset) ==
  raiseSomeChange(previousAttrs,
                  [r.m.heap EXCEPT ![id].attributes = superSet(@, r.attrs, unset)],
                  r.m.ev, id)

\* A set that reconciles the nested keys under unset as well
setReconcilingUnset(m, id, attrs, unset) ==
  setReconciled(toJSON(m.heap, id),
                IF Len(nested(m.heap[id].cls)) > 0
                  THEN reconcile(m, id, attrs, 1)
                  ELSE [m |-> m, attrs |-> attrs],
                id, unset)

\* set(attrs, { unset }) of the base model
set(m, id, attrs, unset) ==
  setReconciled(toJSON(m.heap, id),
                IF ~unset /\ Len(nested(m.heap[id].cls)) > 0
                  THEN reconcile(m, id, attrs, 1)
                  ELSE [m |-> m, attrs |-> attrs],
                id, unset)

\* Collection.get(obj) for plain data: the member whose cid the data carries
\* (0: none).  known are the members and the models added so far.
collectionGet(known, data) ==
  IF IsCid(Get(data.o, "cid")) /\ Get(data.o, "cid").c \in known
    THEN Get(data.o, "cid").c
    ELSE 0

SeqToSet(q) == { q[j] : j \in 1..Len(q) }

\* The rest of Collection.set after a new model c was made for the j-th item
collectionAdded(c, id, models, j, kept, merge) ==
  collectionSet(c.m, id, models, j + 1, Append(kept, c.id), merge)

\* One item of Collection.set: existing is the member the item names, or 0
collectionItem(m, id, models, j, kept, merge, existing) ==
  IF existing # 0
    THEN collectionSet(IF merge
                         THEN set(m, existing,
                                  parse(m.heap[existing].cls, models[j]).o, FALSE)
                         ELSE m,
                       id, models, j + 1,
                       IF existing \in SeqToSet(kept) THEN kept ELSE Append(kept, existing),
                       merge)
    ELSE collectionAdded(construct(m, ModelOf(m.heap[id].cls), models[j]),
                         id, models, j, kept, merge)

\* Collection.set(models, { parse: true }) from the j-th item on, with the
\* models kept so far; merge is false when the collection is being constructed
\* (reset -> add), where nothing is removed either.
collectionSet(m, id, models, j, kept, merge) ==
  IF j > Len(models)
    THEN Machine([m.heap EXCEPT ![id].models = IF merge THEN kept ELSE @ \o kept], m.ev)
    ELSE collectionItem(m, id, models, j, kept, merge,
                        collectionGet(SeqToSet(m.heap[id].models) \cup SeqToSet(kept),
                                      models[j]))

\* new cls(data, { parse: true }): the machine after construction and the
\* new object's heap index
construct(m, cls, data) ==
  IF cls \in ModelClasses
    THEN [m  |-> set(Machine(Append(m.heap, NewObject(cls)), m.ev), Len(m.heap) + 1,
                     Extend(defaults(cls), parse(cls, data).o), FALSE),
          id |-> Len(m.heap) + 1]
    ELSE [m  |-> collectionSet(Machine(Append(m.heap, NewObject(cls)), m.ev),
                               Len(m.heap) + 1, parse(cls, data).a, 1, << >>, FALSE),
          id |-> Len(m.heap) + 1]

\* ------------------------------------------------------ validation errors
\* An error object is an ordered list of entries [k |-> key, v |-> messages]
\* (Object.keys order).  In an instance's validationError the key is an
\* attribute name; in the map handed to mergeInNestedErrors it is a path.
\* A path "addr.city" is the list of its '.'-separated segments; a segment
\* is [key, br, id]: br says that it holds a bracket, id is the number of the
\* bracketed client id (0: the empty string "[]").
Seg(key)        == [key |-> key, br |-> FALSE, id |-> 0]
BrSeg(key, id)  == [key |-> key, br |-> TRUE, id |-> id]
Entry(k, v)     == [k |-> k, v |-> v]

OHas(om, key) == \E j \in 1..Len(om) : om[j].k = key

\* om[key] || []
OVal(om, key) ==
  IF OHas(om, key) THEN om[CHOOSE j \in 1..Len(om) : om[j].k = key].v ELSE << >>

\* om[key] = val
OPut(om, key, val) ==
  IF OHas(om, key)
    THEN [j \in 1..Len(om) |-> IF om[j].k = key THEN Entry(key, val) ELSE om[j]]
    ELSE Append(om, Entry(key, val))

\* { ...a, ...b }
RECURSIVE OSpread(_, _, _)
OSpread(a, b, j) ==
  IF j > Len(b) THEN a ELSE OSpread(OPut(a, b[j].k, b[j].v), b, j + 1)

\* validate(attrs) of each record type: Addr rejects the zip "bad"; the
\* result is the error object, or NoErr when the attributes are valid.
validate(cls, attributes) ==
  IF cls = "Addr" /\ Get(attributes, "zip") = Str("bad")
    THEN Errs(<< Entry("zip", << "invalid" >>) >>)
    ELSE NoErr

\* isValid(): runs validate and stores its result in validationError
isValid(h, id) ==
  [h EXCEPT ![id].validationError = validate(h[id].cls, h[id].attributes)]

\* The entries a failing nested instance contributes, each key prefixed by
\* the path segment of the instance; errObj's own list under the prefixed
\* key comes first.
RECURSIVE prefixed(_, _, _, _, _)
prefixed(errObj, seg, nestedErrs, j, acc) ==
  IF j > Len(nestedErrs) THEN acc
  ELSE prefixed(errObj, seg, nestedErrs, j + 1,
                OPut(acc, << seg, Seg(nestedErrs[j].k) >>,
                     OVal(errObj, << seg, Seg(nestedErrs[j].k) >>) \o nestedErrs[j].v))

\* validationError || {}
OrEmpty(v) == IF IsErrs(v) THEN v.e ELSE << >>

ErrsOf(h, id) == OrEmpty(h[id].validationError)

\* The forEach of _mergeInNestedModelErrors after isValid() of the nested
\* record at the j-th key
RECURSIVE mergeModelErrsFrom(_, _, _, _, _)
mergeModelErrsValid(h2, id, errObj, j, prefixedErrs, key, n) ==
  mergeModelErrsFrom(h2, id, errObj, j + 1,
                     prefixed(errObj, Seg(key), ErrsOf(h2, n), 1, prefixedErrs))

\* _mergeInNestedModelErrors(errObj): the heap after the isValid calls and
\* the map { ...errObj, ...prefixedErrs }
mergeModelErrsFrom(h, id, errObj, j, prefixedErrs) ==
  IF j > Len(nested(h[id].cls))
    THEN [heap |-> h, errs |-> OSpread(errObj, prefixedErrs, 1)]
  ELSE IF IsModel(h, Get(h[id].attributes, nested(h[id].cls)[j].key))
    THEN mergeModelErrsValid(isValid(h, h[id].attributes[nested(h[id].cls)[j].key].i),
                             id, errObj, j, prefixedErrs, nested(h[id].cls)[j].key,
                             h[id].attributes[nested(h[id].cls)[j].key].i)
  ELSE mergeModelErrsFrom(h, id, errObj, j + 1, prefixedErrs)

mergeInNestedModelErrors(h, id, errObj) == mergeModelErrsFrom(h, id, errObj, 1, << >>)

\* nestedCl.forEach(nestedMd => ...) after isValid() of the j-th member
RECURSIVE mergeMemberErrsFrom(_, _, _, _, _, _)
mergeMemberErrsValid(h2, key, members, errObj, j, mergedErrs) ==
  mergeMemberErrsFrom(h2, key, members, errObj, j + 1,
                      OSpread(mergedErrs,
                              prefixed(errObj, BrSeg(key, members[j]),
                                       ErrsOf(h2, members[j]), 1, << >>),
                              1))

\* nestedCl.forEach(nestedMd => ...) from the j-th member on
mergeMemberErrsFrom(h, key, members, errObj, j, mergedErrs) ==
  IF j > Len(members) THEN [heap |-> h, errs |-> mergedErrs]
  ELSE mergeMemberErrsValid(isValid(h, members[j]), key, members, errObj, j, mergedErrs)

\* _mergeInNestedCollectionErrors(errObj)
RECURSIVE mergeCollectionErrsFrom(_, _, _, _, _)
mergeCollectionErrsNext(r, id, errObj, j) ==
  mergeCollectionErrsFrom(r.heap, id, errObj, j + 1, r.errs)

mergeCollectionErrsFrom(h, id, errObj, j, mergedErrs) ==
  IF j > Len(nested(h[id].cls)) THEN [heap |-> h, errs |-> mergedErrs]
  ELSE IF IsInst(Get(h[id].attributes, nested(h[id].cls)[j].key))
          /\ ~IsModel(h, Get(h[id].attributes, nested(h[id].cls)[j].key))
    THEN mergeCollectionErrsNext(
           mergeMemberErrsFrom(h, nested(h[id].cls)[j].key,
                               h[h[id].attributes[nested(h[id].cls)[j].key].i].models,
                               errObj, 1, mergedErrs),
           id, errObj, j)
  ELSE mergeCollectionErrsFrom(h, id, errObj, j + 1, mergedErrs)

mergeInNestedCollectionErrors(h, id, errObj) ==
  mergeCollectionErrsFrom(h, id, errObj, 1, errObj)

\* The static properties of the nested classes: _setNestedValidationErrors
\* takes the class of a nested key (this.nested[key]) as the node to write to.
Class(cls) == [cl |-> cls]
IsClass(v) == DOMAIN v = {"cl"}

Router(h, st, threw) == [heap |-> h, statics |-> st, threw |-> threw]

\* baseInstance.validationError = baseInstance.validationError || {};
\* baseInstance.validationError[deepErrKey] = errObj[errKey]
writeError(rt, base, deepErrKey, msgs) ==
  IF IsInst(base)
    THEN Router([rt.heap EXCEPT ![base.i].validationError =
                   Errs(OPut(ErrsOf(rt.heap, base.i), deepErrKey, msgs))],
                rt.statics, FALSE)
    ELSE Router(rt.heap,
                [rt.statics EXCEPT ![base.cl] =
                   Errs(OPut(OrEmpty(@), deepErrKey, msgs))],
                FALSE)

TypeError == [x |-> "TypeError"]

\* A lookup by position instead of by client id: always the first member
bracketGetFirst(h, base, seg) ==
  IF ~IsModel(h, base) THEN TypeError
  ELSE LET coll == Get(h[base.i].attributes, seg.key) IN
       IF ~IsInst(coll) THEN TypeError
       ELSE IF IsModel(h, coll) \/ h[coll.i].models = << >> THEN Undef
       ELSE Inst(h[coll.i].models[1])

\* baseInstance.get(key).get(clientID) of a bracketed segment: the node
\* reached, or "TypeError" when a get is called on something that has none
bracketGet(h, base, seg) ==
  IF ~IsModel(h, base) THEN TypeError
  ELSE LET coll == Get(h[base.i].attributes, seg.key) IN
       IF ~IsInst(coll) THEN TypeError
       ELSE IF IsModel(h, coll) THEN Undef
       ELSE IF seg.id \in SeqToSet(h[coll.i].models) THEN Inst(seg.id)
       ELSE Undef

\* split.forEach((deepErrKey, deepIndex) => ...) of one path, from segment d
RECURSIVE walk(_, _, _, _, _)
walk(rt, base, path, d, msgs) ==
  LET descend(b) == IF b = TypeError THEN [rt EXCEPT !.threw = TRUE]
                    ELSE walk(rt, b, path, d + 1, msgs)
  IN
  IF d > Len(path) THEN rt
  ELSE IF path[d].br
    THEN IF path[d].id = 0
           THEN [rt EXCEPT !.threw = TRUE]    \* Unable to obtain the client id.
           ELSE descend(bracketGet(rt.heap, base, path[d]))
  ELSE IF d = Len(path)
    THEN IF ~Truthy(base)
           THEN [rt EXCEPT !.threw = TRUE]    \* Unable to obtain the nested instance.
           ELSE writeError(rt, base, path[d].key, msgs)
  ELSE \* baseInstance = baseInstance.nested[deepErrKey] || baseInstance
    IF IsInst(base) /\ Len(nested(rt.heap[base.i].cls)) > 0
      THEN descend(IF NestedClassOf(rt.heap[base.i].cls, path[d].key) = "none"
                     THEN base
                     ELSE Class(NestedClassOf(rt.heap[base.i].cls, path[d].key)))
      ELSE [rt EXCEPT !.threw = TRUE]         \* nested is undefined

\* A forEach that goes on with the next key after a throw
RECURSIVE setNestedContinue(_, _, _, _)
setNestedContinue(rt, id, errObj, j) ==
  LET next(r2) == setNestedContinue([r2 EXCEPT !.threw = rt.threw \/ r2.threw],
                                    id, errObj, j + 1)
  IN IF j > Len(errObj) THEN rt
     ELSE next(walk([rt EXCEPT !.threw = FALSE], Inst(id), errObj[j].k, 1, errObj[j].v))

\* _setNestedValidationErrors(errObj) from the j-th key on: a throw ends the
\* forEach and leaves what was written
RECURSIVE setNestedValidationErrors(_, _, _, _)
setNestedValidationErrors(rt, id, errObj, j) ==
  IF j > Len(errObj) \/ rt.threw THEN rt
  ELSE setNestedValidationErrors(walk(rt, Inst(id), errObj[j].k, 1, errObj[j].v),
                                 id, errObj, j + 1)

\* mergeInNestedErrors(errObj): the heap and statics after the call, whether
\* it threw, and the merged map it returns
mergeInNestedErrors(h, st, id, errObj) ==
  LET return(rt, merged) ==
        [heap |-> rt.heap, statics |-> rt.statics, threw |-> rt.threw, merged |-> merged]
      distribute(h2, merged) ==
        return(setNestedValidationErrors(Router(h2, st, FALSE), id, merged, 1), merged)
      collections(a, b) ==
        distribute(b.heap, OSpread(OSpread(errObj, a.errs, 1), b.errs, 1))
      models(a) ==
        collections(a, mergeInNestedCollectionErrors(a.heap, id, errObj))
  IN models(mergeInNestedModelErrors(h, id, errObj))

\* ------------------------------------------------- snapshot, reset, clone
\* The objects that lastSyncedAttrs fields refer to are kept in snaps; the
\* field holds the index.  A nested record's field is 0: its own empty
\* object, which nothing else refers to and nothing ever replaces.
EmptySnapshot == Obj(EmptyObj)

\* A clear that removes nothing
clearNothing(m, id) == m

\* clear(): unset every attribute
clear(m, id) ==
  set(m, id, [k \in DOMAIN m.heap[id].attributes |-> Undef], TRUE)

\* reset(): back to the last synced attributes, or to the defaults
reset(m, sn, id) ==
  LET clearError(m2) == Machine([m2.heap EXCEPT ![id].validationError = NoErr], m2.ev)
  IN clearError(IF DOMAIN sn[m.heap[id].lastSyncedAttrs].o # {}
                  THEN set(m, id, JSONCopy(m.heap, sn[m.heap[id].lastSyncedAttrs]).o, FALSE)
                  ELSE set(clear(m, id), id, defaults(m.heap[id].cls), FALSE))

\* A handler that keeps what the request sent when it was issued
onSyncSent(h, sn, id, resp, req) ==
  [heap  |-> [h EXCEPT ![id].lastSyncedAttrs = Len(sn) + 1],
   snaps |-> Append(sn, IF IsObj(req.data) THEN req.data ELSE EmptySnapshot)]

\* A handler that writes the copy into the object lastSyncedAttrs refers to
onSyncInPlace(h, sn, id, resp, req) ==
  [heap  |-> h,
   snaps |-> [sn EXCEPT ![h[id].lastSyncedAttrs] = JSONCopy(h, toJSON(h, id))]]

\* the 'sync' handler of the constructor, called with (model, resp, options):
\* a new object holding a deep copy of toJSON()
onSync(h, sn, id, resp, req) ==
  [heap  |-> [h EXCEPT ![id].lastSyncedAttrs = Len(sn) + 1],
   snaps |-> Append(sn, JSONCopy(h, toJSON(h, id)))]

\* new cls(attrs) of a top-level record: Backbone's constructor, then
\* this.lastSyncedAttrs = {}
newRecord(m, sn, cls, attrs) ==
  LET init(c) == [heap  |-> [c.m.heap EXCEPT ![c.id].lastSyncedAttrs = Len(sn) + 1],
                  snaps |-> Append(sn, EmptySnapshot),
                  id    |-> c.id]
  IN init(construct(m, cls, attrs))

\* A clone with the assignment turned around: the original is given the
\* clone's empty object
cloneSwapped(h, sn, id) ==
  LET share(c) == [heap  |-> [c.heap EXCEPT ![id].lastSyncedAttrs =
                                c.heap[c.id].lastSyncedAttrs],
                   snaps |-> c.snaps,
                   id    |-> c.id]
  IN share(newRecord(Machine(h, << >>), sn, h[id].cls, toJSON(h, id)))

\* A clone that is the record itself
cloneItself(h, sn, id) == [heap |-> h, snaps |-> sn, id |-> id]

\* clone(): a new record from toJSON() that refers to the same
\* lastSyncedAttrs object
clone(h, sn, id) ==
  LET share(c) == [heap  |-> [c.heap EXCEPT ![c.id].lastSyncedAttrs =
                                h[id].lastSyncedAttrs],
                   snaps |-> c.snaps,
                   id    |-> c.id]
  IN share(newRecord(Machine(h, << >>), sn, h[id].cls, toJSON(h, id)))

\* ------------------------------------------------------------------ sync
\* removeProp(obj, propName): the data without the property, at every level
RECURSIVE removeProp(_, _)
removeProp(v, propName) ==
  IF IsObj(v) THEN Obj([k \in DOMAIN v.o \ {propName} |-> removeProp(v.o[k], propName)])
  ELSE IF IsArr(v) THEN Arr([j \in 1..Len(v.a) |-> removeProp(v.a[j], propName)])
  ELSE v

\* sync(method, model, options): the request handed to the transport.
\* options.attrs is Undef when the caller gives none; Backbone.sync sends
\* options.attrs || model.toJSON() with a create, update or patch.
sync(h, id, method, attrs) ==
  LET optionsAttrs == IF method \in {"create", "update"} /\ Truthy(attrs)
                        THEN removeProp(attrs, "_clientID")
                        ELSE attrs
  IN [method   |-> method,
      hasAttrs |-> Truthy(optionsAttrs),
      data     |-> IF method \in {"create", "update", "patch"}
                     THEN IF Truthy(optionsAttrs) THEN JSONCopy(h, optionsAttrs)
                          ELSE JSONCopy(h, toJSON(h, id))
                     ELSE Null]

\* ------------------------------------------------------ garbage collection
\* Objects no record of the caller reaches any more cannot act again; their
\* heap cells are cleared, and the snapshot objects nothing refers to are
\* dropped (the referring fields are renumbered).
Dead == NewObject("dead")

Refs(h, id) ==
  { h[id].attributes[k].i : k \in { x \in DOMAIN h[id].attributes : IsInst(h[id].attributes[x]) } }
    \cup SeqToSet(h[id].models)

RECURSIVE Reach(_, _)
Reach(h, S) ==
  LET T == S \cup UNION { Refs(h, id) : id \in S }
  IN IF T = S THEN S ELSE Reach(h, T)

LiveSnaps(h, rs) == { h[rs[k]].lastSyncedAttrs : k \in 1..Len(rs) }

Rank(L, x) == Cardinality({ y \in L : y <= x })

RECURSIVE Pick(_, _, _)
Pick(sn, L, j) ==
  IF j > Len(sn) THEN << >>
  ELSE (IF j \in L THEN << sn[j] >> ELSE << >>) \o Pick(sn, L, j + 1)

collectHeap(h, sn, rs) ==
  LET sweep(live, L) ==
        [id \in 1..Len(h) |->
           IF id \notin live THEN Dead
           ELSE IF id \in SeqToSet(rs)
             THEN [h[id] EXCEPT !.lastSyncedAttrs = Rank(L, @)]
           ELSE h[id]]
  IN sweep(Reach(h, SeqToSet(rs)), LiveSnaps(h, rs))

collectSnaps(h, sn, rs) == Pick(sn, LiveSnaps(h, rs), 1)

\* ------------------------------------------------------------------ state
VARIABLES
  heap,      \* the objects: heap[k] is the record with cid k, or a collection
  snaps,     \* the objects lastSyncedAttrs fields refer to
  statics,   \* validationError as a static property of each nested class
  roots,     \* the records the caller holds, in order of construction
  inflight,  \* inflight[k]: the requests of roots[k] the transport has not answered,
             \* in the order they were issued
  confirmed, \* the records with a confirmed sync in their history (a clone
             \* inherits the history of the record it was made from)
  last,      \* the caller's last operation and what it observed
  ops        \* operations performed

vars == << heap, snaps, statics, roots, inflight, confirmed, last, ops >>

NestedClasses == {"Addr", "Addresses"}

\* what the caller observes of an operation: the record it was called on, the
\* input, whether it threw, the someChange events raised on that record, the
\* values at the nested keys and the validationError before the call, and
\* the value returned
Observed(op, on, arg, unset, threw, someChange, prev, ret) ==
  [op |-> op, on |-> on, arg |-> arg, unset |-> unset, threw |-> threw,
   someChange |-> someChange, prev |-> prev.nested, prevError |-> prev.error,
   ret |-> ret]

Count(ev, id) == Cardinality({ j \in 1..Len(ev) : ev[j] = SomeChange(id) })

Prev(h, id) ==
  [nested |-> [k \in NestedKeys(h[id].cls) |-> Get(h[id].attributes, k)],
   error  |-> h[id].validationError]

\* ----------------------------------------------------------------- inputs
\* The payloads the caller hands to set on a top-level record
SetPayloads ==
  << "name" :> Str("b"),
     "note" :> Str("x"),
     "cid" :> Str("x"),
     "addr" :> Obj("city" :> Str("x")),
     "addr" :> Obj("zip" :> Str("bad")),
     "addr" :> Obj(EmptyObj),
     "addr" :> Null,
     "addresses" :> Arr(<< >>),
     "addresses" :> Arr(<< Obj("zip" :> Str("x")) >>),
     "addresses" :> Arr(<< Obj("zip" :> Str("x")), Obj("zip" :> Str("bad")) >>) >>

\* The payloads of set(..., { unset: true })
UnsetPayloads ==
  << "name" :> Str("b"),
     "note" :> Str("x"),
     "addr" :> Obj("city" :> Str("x")) >>

\* The payloads set directly on a nested record
NestedPayloads ==
  << "city" :> Str("y"),
     "zip" :> Str("bad") >>

\* The nested records of a top-level record: addr and the collection's members
NestedRecords(h, id) ==
  LET a == Get(h[id].attributes, "addr")
      c == Get(h[id].attributes, "addresses")
  IN (IF IsInst(a) THEN {a.i} ELSE {}) \cup
     (IF IsInst(c) THEN SeqToSet(h[c.i].models) ELSE {})

\* a client id no record has ("doesnotexist")
NoSuchCid == 0 - 1

Members(h, id) ==
  LET c == Get(h[id].attributes, "addresses")
  IN IF IsInst(c) THEN SeqToSet(h[c.i].models) ELSE {}

\* The error maps the caller hands to mergeInNestedErrors
ErrMaps(h, id) ==
  { << Entry(<< Seg("name") >>, << "required" >>) >>,
    << Entry(<< Seg("addr"), Seg("city") >>, << "required" >>) >>,
    << Entry(<< Seg("addr"), Seg("zip") >>, << "caller" >>) >>,
    << Entry(<< BrSeg("addresses", NoSuchCid) >>, << "invalid" >>) >>,
    << Entry(<< Seg("name") >>, << "required" >>),
       Entry(<< BrSeg("addresses", NoSuchCid), Seg("zip") >>, << "invalid" >>),
       Entry(<< Seg("note") >>, << "required" >>) >> }
  \cup { << Entry(<< BrSeg("addresses", c), Seg("zip") >>, << "invalid" >>) >> :
           c \in Members(h, id) \cup {0, NoSuchCid} }

\* The server's answers: an empty object, or attributes to set
Responses == << EmptyObj, "name" :> Str("s") >>

\* options.attrs of a save: none, the record's toJSON(), or attributes that
\* carry a _clientID
SyncAttrs(h, id) ==
  << Undef, toJSON(h, id), Obj(("name" :> Str("b")) @@ ("_clientID" :> Cid(id))) >>

\* ------------------------------------------------------------------ Init
Init ==
  LET start(r) ==
        /\ heap = r.heap
        /\ snaps = r.snaps
        /\ statics = [c \in NestedClasses |-> NoErr]
        /\ roots = << r.id >>
        /\ inflight = << << >> >>
        /\ confirmed = {}
        /\ last = Observed("new", r.id, Null, FALSE, FALSE, 0, Prev(r.heap, r.id), Null)
        /\ ops = 0
  IN start(newRecord(Machine(<< >>, << >>), << >>, "Parent", Obj(EmptyObj)))

\* --------------------------------------------------------------- actions
\* The objects after an operation, once the garbage is dropped; an operation
\* that would construct more than MaxObj objects is left out.
Commit(h, sn, rs) ==
  /\ Len(h) <= MaxObj
  /\ heap' = collectHeap(h, sn, rs)
  /\ snaps' = collectSnaps(h, sn, rs)
  /\ ops' = ops + 1

\* record.set(attrs, { unset })
Set(k, attrs, unset) ==
  LET do(id, m) ==
        /\ Commit(m.heap, snaps, roots)
        /\ last' = Observed("set", id, Obj(attrs), unset, FALSE, Count(m.ev, id),
                            Prev(heap, id), Null)
  IN /\ ops < MaxOps
     /\ do(roots[k], set(Machine(heap, << >>), roots[k], attrs, unset))
     /\ UNCHANGED << statics, roots, inflight, confirmed >>

\* record.get('addr').set(attrs), record.get('addresses').get(cid).set(attrs)
NestedSet(k, n, attrs) ==
  LET do(id, m) ==
        /\ Commit(m.heap, snaps, roots)
        /\ last' = Observed("nestedSet", id, Obj(attrs), FALSE, FALSE, Count(m.ev, id),
                            Prev(heap, id), Inst(n))
  IN /\ ops < MaxOps
     /\ n \in NestedRecords(heap, roots[k])
     /\ do(roots[k], set(Machine(heap, << >>), n, attrs, FALSE))
     /\ UNCHANGED << statics, roots, inflight, confirmed >>

\* record.toJSON()
ToJSON(k) ==
  /\ ops < MaxOps
  /\ Commit(heap, snaps, roots)
  /\ last' = Observed("toJSON", roots[k], Null, FALSE, FALSE, 0, Prev(heap, roots[k]),
                      toJSON(heap, roots[k]))
  /\ UNCHANGED << statics, roots, inflight, confirmed >>

\* record.reset()
Reset(k) ==
  LET do(id, m) ==
        /\ Commit(m.heap, snaps, roots)
        /\ last' = Observed("reset", id, snaps[heap[id].lastSyncedAttrs], FALSE, FALSE,
                            Count(m.ev, id), Prev(heap, id), Null)
  IN /\ ops < MaxOps
     /\ do(roots[k], reset(Machine(heap, << >>), snaps, roots[k]))
     /\ UNCHANGED << statics, roots, inflight, confirmed >>

\* record.clone(): the caller holds the clone too
Clone(k) ==
  LET do(id, c) ==
        /\ Commit(c.heap, c.snaps, Append(roots, c.id))
        /\ roots' = Append(roots, c.id)
        /\ confirmed' = IF id \in confirmed THEN confirmed \cup {c.id} ELSE confirmed
        /\ last' = Observed("clone", id, Null, FALSE, FALSE, 0, Prev(heap, id), Inst(c.id))
  IN /\ ops < MaxOps
     /\ Len(roots) < MaxRoots
     /\ do(roots[k], clone(heap, snaps, roots[k]))
     /\ inflight' = Append(inflight, << >>)
     /\ UNCHANGED statics

\* record.mergeInNestedErrors(errObj)
Merge(k, errObj) ==
  LET do(id, r) ==
        /\ Commit(r.heap, snaps, roots)
        /\ statics' = r.statics
        /\ last' = Observed("merge", id, [e |-> errObj], FALSE, r.threw, 0,
                            Prev(heap, id), [e |-> r.merged])
  IN /\ ops < MaxOps
     /\ do(roots[k], mergeInNestedErrors(heap, statics, roots[k], errObj))
     /\ UNCHANGED << roots, inflight, confirmed >>

\* record.sync(method, record, { attrs }): a request goes out
Sync(k, method, attrs) ==
  /\ ops < MaxOps
  /\ Commit(heap, snaps, roots)
  /\ inflight' = [inflight EXCEPT ![k] = Append(@, sync(heap, roots[k], method, attrs))]
  /\ last' = Observed("sync", roots[k], attrs, FALSE, FALSE, 0, Prev(heap, roots[k]), Null)
  /\ UNCHANGED << statics, roots, confirmed >>

\* the sequence without its j-th element
Without(q, j) == [x \in 1..(Len(q) - 1) |-> IF x < j THEN q[x] ELSE q[x + 1]]

\* The transport confirms one of the record's requests, in any order:
\* Backbone sets the attributes of the response and triggers 'sync', whose
\* handler takes the snapshot.
SyncConfirm(k, j, resp) ==
  LET snapshot(id, m, s) ==
        /\ Commit(s.heap, s.snaps, roots)
        /\ last' = Observed("confirm", id, Obj(resp), FALSE, FALSE, Count(m.ev, id),
                            Prev(heap, id), inflight[k][j])
      do(id, m) == snapshot(id, m, onSync(m.heap, snaps, id, resp, inflight[k][j]))
  IN /\ ops < MaxOps
     /\ do(roots[k], set(Machine(heap, << >>), roots[k], resp, FALSE))
     /\ inflight' = [inflight EXCEPT ![k] = Without(@, j)]
     /\ confirmed' = confirmed \cup {roots[k]}
     /\ UNCHANGED << statics, roots >>

Roots == 1..Len(roots)

DoSet         == \E k \in Roots : \E j \in 1..Len(SetPayloads) : Set(k, SetPayloads[j], FALSE)
DoUnset       == \E k \in Roots : \E j \in 1..Len(UnsetPayloads) : Set(k, UnsetPayloads[j], TRUE)
DoNestedSet   == \E k \in Roots : \E n \in 1..Len(heap) : \E j \in 1..Len(NestedPayloads) :
                   NestedSet(k, n, NestedPayloads[j])
DoToJSON      == \E k \in Roots : ToJSON(k)
DoReset       == \E k \in Roots : Reset(k)
DoClone       == \E k \in Roots : Clone(k)
DoMerge       == \E k \in Roots : \E e \in ErrMaps(heap, roots[k]) : Merge(k, e)
DoSave        == \E k \in Roots : \E j \in 1..Len(SyncAttrs(heap, roots[k])) :
                   Sync(k, "update", SyncAttrs(heap, roots[k])[j])
DoFetch       == \E k \in Roots : Sync(k, "read", Undef)
DoSyncConfirm == \E k \in Roots : \E j \in 1..Len(inflight[k]) : \E x \in 1..Len(Responses) :
                   SyncConfirm(k, j, Responses[x])

Next ==
  \/ DoSet
  \/ DoUnset
  \/ DoNestedSet
  \/ DoToJSON
  \/ DoReset
  \/ DoClone
  \/ DoMerge
  \/ DoSave
  \/ DoFetch
  \/ DoSyncConfirm

Spec == Init /\ [][Next]_vars

\* ================================================================ claims
\* the data without the client identifiers toJSON() appends, at every depth
RECURSIVE WithoutCid(_)
WithoutCid(v) ==
  IF IsObj(v) THEN Obj([k \in DOMAIN v.o \ {"cid"} |-> WithoutCid(v.o[k])])
  ELSE IF IsArr(v) THEN Arr([j \in 1..Len(v.a) |-> WithoutCid(v.a[j])])
  ELSE v

attributesOf(id) == heap[id].attributes

\* the snapshot a record's lastSyncedAttrs refers to
SnapshotOf(h, sn, id) == sn[h[id].lastSyncedAttrs]

\* the data a set call supplies for key is plain data: present, no instance
PlainDataFor(key) == key \in DOMAIN last.arg.o /\ ~IsInst(last.arg.o[key])

\* C1 as stated: whenever a set call supplies plain data for a nested key
\* that holds an instance n, the key holds the same instance n afterwards.
C1_InstanceKeptByEverySet ==
  last.op = "set" =>
    \A key \in NestedKeys("Parent") :
      (PlainDataFor(key) /\ IsInst(last.prev[key]))
        => Get(attributesOf(last.on), key) = last.prev[key]

\* C1 amended: a set call without unset that supplies truthy plain data (an
\* object or an array) for a nested key holding an instance n leaves the same
\* instance n at the key, and a set call puts a new instance at a nested key
\* only when no instance was there before.
C1_InstanceKeptByTruthyData ==
  last.op = "set" =>
    \A key \in NestedKeys("Parent") :
      /\ (~last.unset /\ PlainDataFor(key) /\ Truthy(last.arg.o[key])
            /\ IsInst(last.prev[key]))
           => Get(attributesOf(last.on), key) = last.prev[key]
      /\ (IsInst(Get(attributesOf(last.on), key))
            /\ Get(attributesOf(last.on), key) # last.prev[key])
           => ~IsInst(last.prev[key])

\* C1 witness: plain data was set on the nested record that was already
\* there, the data changed it, and the key still holds that instance.
C1_Witness ==
  /\ last.op = "set" /\ ~last.unset
  /\ PlainDataFor("addr") /\ Truthy(last.arg.o["addr"])
  /\ IsInst(last.prev["addr"])
  /\ Get(attributesOf(last.on), "addr") = last.prev["addr"]
  /\ last.someChange = 1

\* the snapshot was captured by a sync confirmation of this very record
OwnSnapshot(v, id) == IsObj(v) /\ Get(v.o, "cid") = Cid(id)

\* C2 as stated: a reset after a confirmed sync leaves the record's expansion
\* equal to the snapshot captured at that sync, with no extra and no missing key.
C2_ResetRestoresSnapshotExactly ==
  (last.op = "reset" /\ OwnSnapshot(last.arg, last.on))
    => toJSON(heap, last.on) = last.arg

\* C3: a reset of a record with no confirmed sync in its history leaves
\* exactly the type's default attributes and a cleared validationError.
C3_ResetRestoresDefaults ==
  (last.op = "reset" /\ last.on \notin confirmed)
    => /\ attributesOf(last.on) = defaults(heap[last.on].cls)
       /\ heap[last.on].validationError = NoErr

\* C3 witness: the reset removed a nested record and cleared an error state.
C3_Witness ==
  /\ last.op = "reset" /\ last.on \notin confirmed
  /\ IsInst(last.prev["addr"])
  /\ IsErrs(last.prevError)
  /\ attributesOf(last.on) = defaults(heap[last.on].cls)
  /\ heap[last.on].validationError = NoErr

\* C4: in every step that is not the sync confirmation of a record, that
\* record's snapshot is the same after the step as before it (set, reset,
\* toJSON, clone, mergeInNestedErrors, a set on a nested record, the issuing
\* of a sync, and any operation on another record leave it alone).
C4_SnapshotChangesOnlyOnConfirm ==
  [][ \A k \in Roots :
        (last'.op = "confirm" /\ last'.on = roots[k])
        \/ SnapshotOf(heap', snaps', roots[k]) = SnapshotOf(heap, snaps, roots[k]) ]_vars

\* C4 witness: a record with a snapshot of its own was cloned, and its
\* expansion has moved away from the snapshot, which is still the one taken.
C4_Witness ==
  /\ last.op = "clone"
  /\ OwnSnapshot(SnapshotOf(heap, snaps, last.on), last.on)
  /\ toJSON(heap, last.on) # SnapshotOf(heap, snaps, last.on)

\* C5: right after a sync confirmation the snapshot equals the record's
\* full expansion as it is then.
C5_SnapshotIsExpansionAtConfirm ==
  last.op = "confirm"
    => SnapshotOf(heap, snaps, last.on) = toJSON(heap, last.on)

\* C5 witness: the request carried the expansion of the time it was issued,
\* the answer brought no attributes, and the snapshot differs from what the
\* request carried: the record was set in between.
C5_Witness ==
  /\ last.op = "confirm"
  /\ last.ret.method = "update" /\ ~last.ret.hasAttrs
  /\ last.arg = Obj(EmptyObj)
  /\ SnapshotOf(heap, snaps, last.on) # last.ret.data
  /\ SnapshotOf(heap, snaps, last.on) = toJSON(heap, last.on)

\* the step is a set call on a record the caller holds
SetStep == last'.op = "set" /\ ops' = ops + 1

\* someChange was raised once if the expansion after the step differs from
\* the one before it, and not at all if the two are equal
RaisedIffExpansionDiffers ==
  last'.someChange = IF toJSON(heap', last'.on) # toJSON(heap, last'.on) THEN 1 ELSE 0

\* the set call, without unset, supplies data for the nested key only
SetsOnly(key) == ~last'.unset /\ DOMAIN last'.arg.o = {key}

\* the call hands the nested record at key data it holds already
SameRecordData(key) ==
  /\ SetsOnly(key) /\ IsObj(last'.arg.o[key])
  /\ IsModel(heap, Get(heap[last'.on].attributes, key))
  /\ \A k \in DOMAIN last'.arg.o[key].o :
       Get(heap[heap[last'.on].attributes[key].i].attributes, k) = last'.arg.o[key].o[k]

\* the call hands the nested record at key data with a leaf it does not hold
ChangesRecordLeaf(key) ==
  /\ SetsOnly(key) /\ IsObj(last'.arg.o[key])
  /\ IsModel(heap, Get(heap[last'.on].attributes, key))
  /\ \E k \in DOMAIN last'.arg.o[key].o :
       Get(heap[heap[last'.on].attributes[key].i].attributes, k) # last'.arg.o[key].o[k]

\* the call hands the nested collection at key the data of its members, as
\* they expand apart from the client identifiers
SameCollectionData(key) ==
  /\ SetsOnly(key) /\ IsArr(last'.arg.o[key])
  /\ IsInst(Get(heap[last'.on].attributes, key))
  /\ ~IsModel(heap, heap[last'.on].attributes[key])
  /\ WithoutCid(toJSON(heap, heap[last'.on].attributes[key].i)) = last'.arg.o[key]

\* C6 as stated: a set call raises someChange once if the record's full
\* expansion after the call differs from the one before it and not at all
\* otherwise; re-assigning identical data to a nested key, a record or a
\* collection, raises none; data that changes a nested leaf raises it once.
C6_SomeChangeIffExpansionDiffers ==
  [][ SetStep
        => /\ RaisedIffExpansionDiffers
           /\ \A key \in NestedKeys("Parent") :
                /\ (SameRecordData(key) \/ SameCollectionData(key)) => last'.someChange = 0
                /\ ChangesRecordLeaf(key) => last'.someChange = 1 ]_vars

\* C6 amended: a set call raises someChange once if the record's full
\* expansion, client identifiers included, differs after the call from the
\* one before it and not at all otherwise; re-assigning identical data to a
\* nested record raises none and data that changes a leaf of it raises it
\* once; re-assigning identical data without client identifiers to a nested
\* collection replaces its members by new ones and raises someChange once,
\* unless the collection has no members.
C6_SomeChangeIffExpansionWithCidsDiffers ==
  [][ SetStep
        => /\ RaisedIffExpansionDiffers
           /\ \A key \in NestedKeys("Parent") :
                /\ SameRecordData(key) => last'.someChange = 0
                /\ ChangesRecordLeaf(key) => last'.someChange = 1
                /\ SameCollectionData(key)
                     => /\ last'.someChange =
                             IF heap[heap[last'.on].attributes[key].i].models # << >>
                               THEN 1 ELSE 0
                        /\ heap'[last'.on].attributes[key] = heap[last'.on].attributes[key]
                        /\ WithoutCid(toJSON(heap', last'.on)) = WithoutCid(toJSON(heap, last'.on))
                        /\ SeqToSet(heap'[heap'[last'.on].attributes[key].i].models)
                             \cap SeqToSet(heap[heap[last'.on].attributes[key].i].models) = {} ]_vars

\* C6 witness: the record's first two operations set the same one-item array
\* at the collection key.  The first made the collection (cid 2) and its
\* member (cid 3); the second replaced the member by a new one (cid 4) with
\* the same data and raised someChange.
C6_Witness ==
  /\ ops = 2
  /\ last.op = "set" /\ ~last.unset
  /\ last.arg = Obj("addresses" :> Arr(<< Obj("zip" :> Str("x")) >>))
  /\ last.prev["addresses"] = Inst(2)
  /\ Get(attributesOf(last.on), "addresses") = Inst(2)
  /\ heap[2].models = << 4 >>
  /\ heap[3] = Dead
  /\ WithoutCid(toJSON(heap, 2)) = last.arg.o["addresses"]
  /\ last.someChange = 1

AddrCityPath == << Seg("addr"), Seg("city") >>

\* C7 as stated: after mergeInNestedErrors of a map with an entry
\* "addr.city" -> msgs on a record whose addr is a nested record, that nested
\* record's validationError holds msgs under city.
C7_NestedRecordHoldsError ==
  (/\ last.op = "merge" /\ ~last.threw
   /\ OHas(last.arg.e, AddrCityPath)
   /\ IsModel(heap, Get(attributesOf(last.on), "addr")))
    => LET n == attributesOf(last.on)["addr"].i
       IN /\ OHas(ErrsOf(heap, n), "city")
          /\ OVal(ErrsOf(heap, n), "city") = OVal(last.arg.e, AddrCityPath)

IsPrefix(p, q) == Len(p) <= Len(q) /\ \A j \in 1..Len(p) : q[j] = p[j]

\* the entries "addresses[c].zip" of the map handed to the last merge
ZipEntries ==
  { j \in 1..Len(last.arg.e) :
      /\ Len(last.arg.e[j].k) = 2
      /\ last.arg.e[j].k[1].br /\ last.arg.e[j].k[1].key = "addresses"
      /\ last.arg.e[j].k[2] = Seg("zip") }

\* the map of the last merge addresses the member s
Addressed(s) ==
  \E j \in 1..Len(last.arg.e) : \E d \in 1..Len(last.arg.e[j].k) :
    last.arg.e[j].k[d].br /\ last.arg.e[j].k[d].id = s

\* C8: after mergeInNestedErrors of a map with an entry "addresses[c].zip"
\* -> msgs, c a member of the nested collection, the member c holds under zip
\* a list that starts with msgs (msgs itself when the member passes its own
\* validation), and a member that the map does not address and that passes
\* its own validation has no zip entry.
C8_MemberHoldsError ==
  (last.op = "merge" /\ ~last.threw) =>
    \A j \in ZipEntries :
      LET c == last.arg.e[j].k[1].id
          M == Members(heap, last.on)
      IN c \in M =>
           /\ OHas(ErrsOf(heap, c), "zip")
           /\ IsPrefix(last.arg.e[j].v, OVal(ErrsOf(heap, c), "zip"))
           /\ validate(heap[c].cls, heap[c].attributes) = NoErr
                => OVal(ErrsOf(heap, c), "zip") = last.arg.e[j].v
           /\ \A s \in M \ {c} :
                (~Addressed(s) /\ validate(heap[s].cls, heap[s].attributes) = NoErr)
                  => ~OHas(ErrsOf(heap, s), "zip")

\* C8 witness: the entry named the second of two members, which holds the
\* messages, and the first member holds none.
C8_Witness ==
  /\ last.op = "merge" /\ ~last.threw
  /\ \E j \in ZipEntries :
       LET c == last.arg.e[j].k[1].id
           a == attributesOf(last.on)["addresses"]
       IN /\ IsInst(a) /\ Len(heap[a.i].models) = 2
          /\ c = heap[a.i].models[2]
          /\ IsPrefix(last.arg.e[j].v, OVal(ErrsOf(heap, c), "zip"))
          /\ ~OHas(ErrsOf(heap, heap[a.i].models[1]), "zip")

\* the bracketed segment addresses an existing collection of the record and
\* names a client id that is empty or that no member has
Unresolvable(id, seg) ==
  /\ seg.br
  /\ IsInst(Get(attributesOf(id), seg.key))
  /\ ~IsModel(heap, Get(attributesOf(id), seg.key))
  /\ (seg.id = 0 \/ seg.id \notin SeqToSet(heap[attributesOf(id)[seg.key].i].models))

\* C9 as stated: mergeInNestedErrors of a map with a path whose bracketed
\* segment names an empty client id, or one no member of the addressed
\* collection has, ends in an error and never completes normally.
C9_UnresolvableCidThrows ==
  (/\ last.op = "merge"
   /\ \E j \in 1..Len(last.arg.e) : \E d \in 1..Len(last.arg.e[j].k) :
        Unresolvable(last.on, last.arg.e[j].k[d]))
    => last.threw

RECURSIVE HasProp(_, _)
\* the data has the property at some level
HasProp(v, propName) ==
  IF IsObj(v) THEN propName \in DOMAIN v.o \/ \E k \in DOMAIN v.o : HasProp(v.o[k], propName)
  ELSE IF IsArr(v) THEN \E j \in 1..Len(v.a) : HasProp(v.a[j], propName)
  ELSE FALSE

\* C10 as stated: a create or update request that goes out with an attributes
\* payload carries the client identifier that toJSON appends (cid) at no level.
C10_NoCidOnTheWire ==
  \A k \in Roots : \A j \in 1..Len(inflight[k]) :
    (inflight[k][j].method \in {"create", "update"} /\ inflight[k][j].hasAttrs)
      => ~HasProp(inflight[k][j].data, "cid")

\* the value holds no record or collection instance at any depth
RECURSIVE IsPlain(_)
IsPlain(v) ==
  IF IsInst(v) THEN FALSE
  ELSE IF IsObj(v) THEN \A k \in DOMAIN v.o : IsPlain(v.o[k])
  ELSE IF IsArr(v) THEN \A j \in 1..Len(v.a) : IsPlain(v.a[j])
  ELSE TRUE

\* C11: in every reachable state the toJSON() of every record the caller
\* holds is plain data at every depth, and under each nested key that holds
\* an instance it has that instance's own expansion: an object for a nested
\* record, an array with one object per member for a nested collection.
C11_ToJSONIsPlainData ==
  \A k \in Roots :
    /\ IsPlain(toJSON(heap, roots[k]))
    /\ \A key \in NestedKeys(heap[roots[k]].cls) :
         IsInst(Get(attributesOf(roots[k]), key))
           => /\ toJSON(heap, roots[k]).o[key] = toJSON(heap, attributesOf(roots[k])[key].i)
              /\ IsModel(heap, attributesOf(roots[k])[key])
                   => IsObj(toJSON(heap, roots[k]).o[key])
              /\ ~IsModel(heap, attributesOf(roots[k])[key])
                   => /\ IsArr(toJSON(heap, roots[k]).o[key])
                      /\ Len(toJSON(heap, roots[k]).o[key].a)
                           = Len(heap[attributesOf(roots[k])[key].i].models)

\* C11 witness: toJSON() was called on a record that holds a nested record
\* and a nested collection of two members, and returned plain data.
C11_Witness ==
  /\ last.op = "toJSON"
  /\ IsModel(heap, Get(attributesOf(last.on), "addr"))
  /\ IsInst(Get(attributesOf(last.on), "addresses"))
  /\ Len(heap[attributesOf(last.on)["addresses"].i].models) = 2
  /\ IsPlain(last.ret)
  /\ Len(last.ret.o["addresses"].a) = 2

\* what an instance of cls made from the payload p expands to, apart from
\* the client identifiers: p on top of the defaults of the type
ExpansionOf(cls, p) ==
  IF cls \in ModelClasses
    THEN Obj(Extend(defaults(cls), p.o))
    ELSE Arr([j \in 1..Len(p.a) |-> Obj(Extend(defaults(ModelOf(cls)), p.a[j].o))])

\* the step was a set call without unset on a record whose nested key held
\* no instance, and the call supplied data for the key
SetOnEmptySlot(key) ==
  /\ last'.op = "set" /\ ops' = ops + 1 /\ ~last'.unset
  /\ key \in DOMAIN last'.arg.o
  /\ ~IsInst(Get(heap[last'.on].attributes, key))

\* after the step the key holds an instance of the declared type that did not
\* exist before the step and that expands to the payload
NewInstanceAt(key) ==
  LET v == Get(heap'[last'.on].attributes, key)
  IN /\ IsInst(v)
     /\ v.i > Len(heap)
     /\ heap'[v.i].cls = NestedClassOf(heap'[last'.on].cls, key)
     /\ WithoutCid(toJSON(heap', v.i))
          = ExpansionOf(NestedClassOf(heap'[last'.on].cls, key), last'.arg.o[key])

\* C12 as stated: a set call that supplies any plain data, falsy data
\* included, for a nested key holding no instance leaves a newly constructed
\* instance of the declared type at the key, whose expansion is the data.
C12_NewInstanceForEveryPayload ==
  [][ \A key \in NestedKeys("Parent") :
        (SetOnEmptySlot(key) /\ ~IsInst(last'.arg.o[key])) => NewInstanceAt(key) ]_vars

\* C12 amended: a set call that supplies truthy plain data (an object or an
\* array, empty ones included) for a nested key holding no instance leaves a
\* newly constructed instance of the declared type at the key, whose expansion
\* apart from the client identifiers is the data on top of the type's
\* defaults; a falsy payload is stored at the key as it is.
C12_NewInstanceForTruthyPayload ==
  [][ \A key \in NestedKeys("Parent") :
        (SetOnEmptySlot(key) /\ ~IsInst(last'.arg.o[key]))
          => IF Truthy(last'.arg.o[key])
               THEN NewInstanceAt(key)
               ELSE Get(heap'[last'.on].attributes, key) = last'.arg.o[key] ]_vars

\* C12 witness: an empty array was set at the collection key that held no
\* instance, and the key holds a collection without members.
C12_Witness ==
  /\ last.op = "set" /\ ~last.unset
  /\ PlainDataFor("addresses") /\ last.arg.o["addresses"] = Arr(<< >>)
  /\ ~IsInst(last.prev["addresses"])
  /\ InstanceOf(heap, Get(attributesOf(last.on), "addresses"), "Addresses")
  /\ heap[attributesOf(last.on)["addresses"].i].models = << >>

\* the snapshot is one that a sync confirmation of another record captured:
\* the record has it from the record it was cloned from
InheritedSnapshot(v, id) ==
  IsObj(v) /\ "cid" \in DOMAIN v.o /\ v.o["cid"] # Cid(id)

\* the clone made by the last operation has the type of the original, is a
\* record of its own, and refers to the original's snapshot object
CloneSharesSnapshot ==
  /\ last.ret.i # last.on
  /\ heap[last.ret.i].cls = heap[last.on].cls
  /\ heap[last.ret.i].lastSyncedAttrs = heap[last.on].lastSyncedAttrs
  /\ SnapshotOf(heap, snaps, last.ret.i) = SnapshotOf(heap, snaps, last.on)

\* C13 as stated: a clone is a new record of the original's type whose
\* expansion, apart from the client identifiers, is the original's and whose
\* snapshot is the original's; and a reset of a clone that inherited a
\* snapshot leaves the clone's expansion, apart from the client identifiers,
\* equal to that snapshot.
C13_CloneCopiesExpansionAndSnapshot ==
  /\ last.op = "clone"
       => /\ CloneSharesSnapshot
          /\ WithoutCid(toJSON(heap, last.ret.i)) = WithoutCid(toJSON(heap, last.on))
  /\ (last.op = "reset" /\ InheritedSnapshot(last.arg, last.on))
       => WithoutCid(toJSON(heap, last.on)) = WithoutCid(last.arg)

\* the records without nested attributes that the last clone rebuilt from
\* their toJSON(), each paired with the record made from it: the nested
\* record, and the members of the nested collection by position
Rebuilt ==
  LET from == attributesOf(last.on)
      to   == attributesOf(last.ret.i)
  IN (IF IsModel(heap, Get(from, "addr")) /\ IsModel(heap, Get(to, "addr"))
        THEN { << from["addr"].i, to["addr"].i >> } ELSE {})
     \cup
     (IF IsInst(Get(from, "addresses")) /\ IsInst(Get(to, "addresses"))
        THEN { << heap[from["addresses"].i].models[j], heap[to["addresses"].i].models[j] >> :
                 j \in 1..Len(heap[from["addresses"].i].models) }
        ELSE {})

\* the nested values of the original all have a counterpart in the clone
AllRebuilt ==
  /\ IsModel(heap, Get(attributesOf(last.on), "addr"))
       => IsModel(heap, Get(attributesOf(last.ret.i), "addr"))
  /\ IsInst(Get(attributesOf(last.on), "addresses"))
       => /\ IsInst(Get(attributesOf(last.ret.i), "addresses"))
          /\ Len(heap[attributesOf(last.ret.i)["addresses"].i].models)
               = Len(heap[attributesOf(last.on)["addresses"].i].models)

\* C14 as stated: a record without nested attributes that is constructed
\* from r.toJSON() has a toJSON() equal to r.toJSON().
C14_RoundTripEqual ==
  last.op = "clone"
    => /\ AllRebuilt
       /\ \A pr \in Rebuilt : toJSON(heap, pr[2]) = toJSON(heap, pr[1])

\* C14 amended: a record without nested attributes that is constructed from
\* r.toJSON() is a record of its own whose toJSON() is r.toJSON() on top of
\* the type's defaults, with its own client identifier in the place of r's.
C14_RoundTripEqualApartFromCid ==
  last.op = "clone"
    => /\ AllRebuilt
       /\ \A pr \in Rebuilt :
            /\ pr[2] # pr[1]
            /\ heap[pr[2]].cls = heap[pr[1]].cls
            /\ toJSON(heap, pr[2])
                 = Obj(Put(Extend(defaults(heap[pr[1]].cls), toJSON(heap, pr[1]).o),
                           "cid", Cid(pr[2])))

\* C14 witness: the clone rebuilt a member of the nested collection that has
\* attributes; the two expansions differ, and only in the client identifier.
C14_Witness ==
  /\ last.op = "clone"
  /\ \E pr \in Rebuilt :
       /\ pr[1] \in Members(heap, last.on)
       /\ DOMAIN heap[pr[1]].attributes # {}
       /\ toJSON(heap, pr[2]) # toJSON(heap, pr[1])
       /\ WithoutCid(toJSON(heap, pr[2])) = WithoutCid(toJSON(heap, pr[1]))

\* the client identifier a record reports
ReportedCid(h, id) == toJSON(h, id).o["cid"]

\* C15: in every step, every record the caller holds and every nested record
\* that is there before and after the step reports the same client
\* identifier in toJSON() after the step as before it, whatever the operation
\* (a set with a cid key in the payload, a reset, a sync confirmation, a
\* mergeInNestedErrors, a clone); and the record a clone returns reports an
\* identifier that is not the original's.
C15_CidNeverChanges ==
  [][ /\ \A k \in Roots :
           /\ ReportedCid(heap', roots'[k]) = ReportedCid(heap, roots[k])
           /\ \A n \in NestedRecords(heap, roots[k]) \cap NestedRecords(heap', roots'[k]) :
                ReportedCid(heap', n) = ReportedCid(heap, n)
      /\ last'.op = "clone"
           => ReportedCid(heap', last'.ret.i) # ReportedCid(heap', last'.on) ]_vars

\* C15 witness: a record that holds a cid attribute of another value, which
\* a set call put there, was cloned; the original reports its own identifier
\* and the clone, which was built from data carrying the original's, its own.
C15_Witness ==
  /\ last.op = "clone"
  /\ Get(attributesOf(last.on), "cid") = Str("x")
  /\ ReportedCid(heap, last.on) = Cid(last.on)
  /\ Get(attributesOf(last.ret.i), "cid") = Cid(last.on)
  /\ ReportedCid(heap, last.ret.i) = Cid(last.ret.i)

AddrZipPath == << Seg("addr"), Seg("zip") >>

\* C16 as stated: when the caller's map holds a list under "addr.zip" and the
\* nested record at addr fails its validation with messages for zip, the map
\* mergeInNestedErrors returns holds under "addr.zip" the caller's list
\* followed by the nested record's messages.
C16_HarvestedAppendedToCallersList ==
  (/\ last.op = "merge" /\ ~last.threw
   /\ OHas(last.arg.e, AddrZipPath)
   /\ IsModel(heap, Get(attributesOf(last.on), "addr"))
   /\ OHas(OrEmpty(validate("Addr", heap[attributesOf(last.on)["addr"].i].attributes)), "zip"))
    => OVal(last.ret.e, AddrZipPath)
         = OVal(last.arg.e, AddrZipPath)
             \o OVal(OrEmpty(validate("Addr", heap[attributesOf(last.on)["addr"].i].attributes)),
                     "zip")

\* the path names a place mergeInNestedErrors can reach from the record: a
\* bracketed segment needs the collection and a client id, and a segment
\* after it needs the member
Resolves(h, id, path) ==
  IF ~path[1].br THEN TRUE
  ELSE /\ IsInst(Get(h[id].attributes, path[1].key))
       /\ ~IsModel(h, Get(h[id].attributes, path[1].key))
       /\ path[1].id # 0
       /\ Len(path) > 1 => path[1].id \in Members(h, id)

\* the first path of the map that does not resolve
FirstFailing(h, id, e) ==
  CHOOSE f \in 1..Len(e) :
    /\ ~Resolves(h, id, e[f].k)
    /\ \A j \in 1..(f - 1) : Resolves(h, id, e[j].k)

\* the record's own error state once the paths before the f-th that name a
\* key of the record itself are written
RECURSIVE WrittenBefore(_, _, _, _)
WrittenBefore(own, e, j, f) ==
  IF j >= f THEN own
  ELSE WrittenBefore(IF Len(e[j].k) = 1 /\ ~e[j].k[1].br
                       THEN Errs(OPut(OrEmpty(own), e[j].k[1].key, e[j].v))
                       ELSE own,
                     e, j + 1, f)

\* a path before the f-th leads into a nested instance
NestedBefore(e, f) == \E j \in 1..(f - 1) : Len(e[j].k) > 1 \/ e[j].k[1].br

\* C17: when a mergeInNestedErrors call ends in a resolution error on one
\* path of the merged map, the record's own error state is what it was before
\* the call with the entries of the earlier paths written into it, in order:
\* they are kept as written and no later path is applied; and the error
\* states the earlier paths did not address are as before the call.
C17_WritesBeforeFailureKept ==
  [][ (last'.op = "merge" /\ ops' = ops + 1 /\ last'.threw)
        => /\ \E f \in 1..Len(last'.ret.e) : ~Resolves(heap, last'.on, last'.ret.e[f].k)
           /\ heap'[last'.on].validationError
                = WrittenBefore(heap[last'.on].validationError, last'.ret.e, 1,
                                FirstFailing(heap, last'.on, last'.ret.e))
           /\ ~NestedBefore(last'.ret.e, FirstFailing(heap, last'.on, last'.ret.e))
                => statics' = statics ]_vars

\* C17 witness: the call failed on its second path; the first path's messages
\* are in the record's error state and the third path's are not.
C17_Witness ==
  /\ last.op = "merge" /\ last.threw
  /\ Len(last.arg.e) = 3
  /\ last.prevError = NoErr
  /\ ErrsOf(heap, last.on) = << Entry(last.arg.e[1].k[1].key, last.arg.e[1].v) >>
  /\ ~OHas(ErrsOf(heap, last.on), last.arg.e[3].k[1].key)

\* the expansion of the nested record n is where the record id holds n: at
\* the nested record key, or at n's position in the nested collection
ReflectedUnder(h, id, n) ==
  \/ /\ Get(h[id].attributes, "addr") = Inst(n)
     /\ toJSON(h, id).o["addr"] = toJSON(h, n)
  \/ /\ IsInst(Get(h[id].attributes, "addresses"))
     /\ \E j \in 1..Len(h[h[id].attributes["addresses"].i].models) :
          /\ h[h[id].attributes["addresses"].i].models[j] = n
          /\ toJSON(h, id).o["addresses"].a[j] = toJSON(h, n)

\* C18: a set made directly on a nested record of a parent raises no
\* someChange on the parent and leaves the parent's own attributes as they
\* are (so Backbone raises no change event on it), and the parent's toJSON()
\* after the call shows the data that was set under the nested key.
C18_NestedSetSilentButVisible ==
  [][ (last'.op = "nestedSet" /\ ops' = ops + 1)
        => /\ last'.someChange = 0
           /\ heap'[last'.on].attributes = heap[last'.on].attributes
           /\ \A k \in DOMAIN last'.arg.o :
                toJSON(heap', last'.ret.i).o[k] = last'.arg.o[k]
           /\ ReflectedUnder(heap', last'.on, last'.ret.i) ]_vars

\* C18 witness: the city of the nested record was set directly; the parent
\* saw no someChange, and its toJSON() has the city under addr.
C18_Witness ==
  /\ last.op = "nestedSet"
  /\ last.arg = Obj("city" :> Str("y"))
  /\ last.someChange = 0
  /\ Get(attributesOf(last.on), "addr") = last.ret
  /\ toJSON(heap, last.on).o["addr"].o["city"] = Str("y")

\* C19: a set call with the unset option that names a nested key holding the
\* instance n leaves every object that existed as it was, apart from the
\* attributes of the record itself (so n keeps its attributes), constructs no
\* object, and removes the key from the record's attributes.
C19_UnsetSkipsReconciliation ==
  [][ \A key \in NestedKeys("Parent") :
        (/\ last'.op = "set" /\ ops' = ops + 1 /\ last'.unset
         /\ key \in DOMAIN last'.arg.o
         /\ IsInst(Get(heap[last'.on].attributes, key)))
          => /\ key \notin DOMAIN heap'[last'.on].attributes
             /\ Len(heap') = Len(heap)
             /\ set(Machine(heap, << >>), last'.on, last'.arg.o, TRUE).heap
                  = [heap EXCEPT ![last'.on].attributes = Remove(@, key)] ]_vars

\* C19 witness: the key of a nested record was unset with plain data as the
\* value; the key is gone from the record.
C19_Witness ==
  /\ last.op = "set" /\ last.unset
  /\ PlainDataFor("addr")
  /\ IsInst(last.prev["addr"])
  /\ "addr" \notin DOMAIN attributesOf(last.on)

\* C20: in every step that is a sync confirmation or a reset of one record,
\* the snapshot of every other record the caller holds has the same value
\* after the step as before it, whether or not the two records refer to the
\* same snapshot object; a reset leaves the object shared, a confirmation
\* gives the confirmed record an object of its own.
C20_SharedSnapshotsDoNotInterfere ==
  [][ (last'.op \in {"confirm", "reset"} /\ ops' = ops + 1)
        => \A k \in Roots :
             roots[k] # last'.on
               => /\ SnapshotOf(heap', snaps', roots[k]) = SnapshotOf(heap, snaps, roots[k])
                  /\ heap[roots[k]].lastSyncedAttrs = heap[last'.on].lastSyncedAttrs
                       => (heap'[roots[k]].lastSyncedAttrs = heap'[last'.on].lastSyncedAttrs)
                            = (last'.op = "reset") ]_vars

\* C20 witness: the original was confirmed after the clone was made, when the
\* two referred to the same object; the original has a snapshot in an object
\* of its own and the clone's is still the empty one.
C20_Witness ==
  /\ last.op = "confirm"
  /\ Len(roots) = 2 /\ last.on = roots[1]
  /\ heap[roots[1]].lastSyncedAttrs # heap[roots[2]].lastSyncedAttrs
  /\ SnapshotOf(heap, snaps, roots[1]) = toJSON(heap, roots[1])
  /\ SnapshotOf(heap, snaps, roots[2]) = EmptySnapshot

====
